---- MODULE Spec2Model ----
(***************************************************************************)
(* Model of src/audit.py: the SEO auditor of a static site.                *)
(*                                                                         *)
(* Strings (hrefs, paths, URLs) are sequences of tokens.  A token stands   *)
(* for a run of characters that the code never looks inside: "/" is the    *)
(* path separator, ".html" the page-file extension, "?" and "#" the query  *)
(* and fragment marks, "http://" and "https://" the two schemes (the only  *)
(* tokens that contain "://"), ".." the parent segment, " " whitespace.    *)
(***************************************************************************)
EXTENDS Integers, Sequences, FiniteSets, TLC

\* ------------------------------------------------------------------------
\* Bounds of the model
\* ------------------------------------------------------------------------
MaxLinks == 2       \* anchors read during one run
MaxLedger == 11     \* log_issue calls in the ledger specification
MaxUrls == 11       \* external urls in the pool-width specification

\* ------------------------------------------------------------------------
\* String primitives (Python str methods, on token sequences)
\* ------------------------------------------------------------------------
StartsWith(s, p) == Len(s) >= Len(p) /\ SubSeq(s, 1, Len(p)) = p

EndsWith(s, p) == Len(s) >= Len(p) /\ SubSeq(s, Len(s) - Len(p) + 1, Len(s)) = p

\* sub in s
Contains(s, sub) == \E i \in 1..(Len(s) - Len(sub) + 1) : SubSeq(s, i, i + Len(sub) - 1) = sub

\* s.split(t)[0]
SplitHead(s, t) ==
    IF \E i \in 1..Len(s) : s[i] = t
    THEN LET i == CHOOSE k \in 1..Len(s) : s[k] = t /\ \A j \in 1..(k - 1) : s[j] # t
         IN  SubSeq(s, 1, i - 1)
    ELSE s

\* s.lstrip(t)
RECURSIVE LStrip(_, _)
LStrip(s, t) == IF s # <<>> /\ s[1] = t THEN LStrip(Tail(s), t) ELSE s

\* s.rstrip(t)
RECURSIVE RStrip(_, _)
RStrip(s, t) == IF s # <<>> /\ s[Len(s)] = t THEN RStrip(SubSeq(s, 1, Len(s) - 1), t) ELSE s

\* s.strip()
Strip(s) == RStrip(LStrip(s, " "), " ")

\* ------------------------------------------------------------------------
\* os.path on POSIX
\* ------------------------------------------------------------------------
HTML == <<".html">>
INDEX_HTML == <<"index", ".html">>

\* os.path.join(a, b)
Join(a, b) ==
    IF b # <<>> /\ b[1] = "/" THEN b
    ELSE IF a = <<>> \/ a[Len(a)] = "/" THEN a \o b
    ELSE a \o <<"/">> \o b

\* the segments of a path string, split at "/"
RECURSIVE Segments(_)
Segments(s) ==
    IF \E i \in 1..Len(s) : s[i] = "/"
    THEN LET h == SplitHead(s, "/")
         IN  <<h>> \o Segments(SubSeq(s, Len(h) + 2, Len(s)))
    ELSE <<s>>

\* "/".join(segs)
RECURSIVE Unsplit(_)
Unsplit(segs) ==
    IF segs = <<>> THEN <<>>
    ELSE IF Len(segs) = 1 THEN segs[1]
    ELSE segs[1] \o <<"/">> \o Unsplit(Tail(segs))

\* the loop of posixpath.normpath: drop empty and "." segments, fold ".."
RECURSIVE NormSegs(_, _, _)
NormSegs(segs, acc, isabs) ==
    IF segs = <<>> THEN acc
    ELSE LET c == segs[1]
             r == Tail(segs)
         IN  IF c = <<>> \/ c = <<".">> THEN NormSegs(r, acc, isabs)
             ELSE IF c # <<"..">> \/ (~isabs /\ acc = <<>>)
                       \/ (acc # <<>> /\ acc[Len(acc)] = <<"..">>)
                  THEN NormSegs(r, Append(acc, c), isabs)
             ELSE IF acc # <<>> THEN NormSegs(r, SubSeq(acc, 1, Len(acc) - 1), isabs)
             ELSE NormSegs(r, acc, isabs)

\* os.path.normpath(p)
Normpath(p) ==
    LET isabs == p # <<>> /\ p[1] = "/"
        body == Unsplit(NormSegs(Segments(p), <<>>, isabs))
    IN  IF isabs THEN <<"/">> \o body
        ELSE IF body = <<>> THEN <<".">> ELSE body

\* os.path.dirname(p)
Dirname(p) ==
    IF \E i \in 1..Len(p) : p[i] = "/"
    THEN LET i == CHOOSE k \in 1..Len(p) : p[k] = "/" /\ \A j \in (k + 1)..Len(p) : p[j] # "/"
             head == SubSeq(p, 1, i)
         IN  IF RStrip(head, "/") = <<>> THEN head ELSE RStrip(head, "/")
    ELSE <<>>

\* os.path.basename(p)
Basename(p) ==
    IF \E i \in 1..Len(p) : p[i] = "/"
    THEN LET i == CHOOSE k \in 1..Len(p) : p[k] = "/" /\ \A j \in (k + 1)..Len(p) : p[j] # "/"
         IN  SubSeq(p, i + 1, Len(p))
    ELSE p

\* the non-empty segments of an absolute, normalised path
AbsSegs(p) == SelectSeq(Segments(p), LAMBDA c : c # <<>>)

\* the length of the common prefix of two segment lists
RECURSIVE CommonLen(_, _)
CommonLen(a, b) ==
    IF a # <<>> /\ b # <<>> /\ a[1] = b[1] THEN 1 + CommonLen(Tail(a), Tail(b)) ELSE 0

\* os.path.relpath(p, start), both absolute
Relpath(p, start) ==
    LET ps == AbsSegs(Normpath(p))
        ss == AbsSegs(Normpath(start))
        i == CommonLen(ss, ps)
        ups == [k \in 1..(Len(ss) - i) |-> <<"..">>]
        rel == ups \o SubSeq(ps, i + 1, Len(ps))
    IN  IF rel = <<>> THEN <<".">> ELSE Unsplit(rel)


\* ------------------------------------------------------------------------
\* Program constants
\* ------------------------------------------------------------------------
root_dir == <<"/", "site">>                                   \* Config.root_dir
ignore_paths == {".git", "node_modules", "__pycache__", ".idea", ".vscode", "MasterTool"}
ignore_urls_prefixes == {"javascript:", "mailto:", "#", "tel:"}
ignore_urls_domains == {"cdn-cgi", "google"}
REQUIRED_RELS == <<"nofollow", "noopener", "noreferrer">>
max_workers == 10                                             \* ThreadPoolExecutor(max_workers=10)
SCORE_START == 100
DEAD_LINK_PENALTY == 10
EXTERNAL_PENALTY == 5
ORPHAN_PENALTY == 5
SOFT_ROUTE_PENALTY == 5
URL_STYLE_PENALTY == 2
H1_PENALTY == 5
SCHEMA_PENALTY == 2
READ_FAIL_PENALTY == 0

None == -1                    \* Python None where an int is expected
NoFile == <<>>                \* no current file
HexTokens == {"a1b2c3"}       \* tokens matching [a-f0-9]+

\* ------------------------------------------------------------------------
\* Inputs: the site on disk, the anchors of its pages, the network
\* ------------------------------------------------------------------------
\* a file is the list of the segments of its absolute path
F_index == <<<<"site">>, <<"index", ".html">>>>
F_post_html == <<<<"site">>, <<"post", ".html">>>>
F_post_index == <<<<"site">>, <<"post">>, <<"index", ".html">>>>
F_post == <<<<"site">>, <<"post">>>>
FileUniverse == {F_index, F_post_html, F_post_index, F_post}

\* a name is a regular file or a directory, never both
FileTrees == {F \in SUBSET FileUniverse : ~(F_post \in F /\ F_post_index \in F)}

ORIGIN == <<"https://", "example.com", "/">>
BaseUrls == {<<>>, ORIGIN}

GO_X == <<"/", "go", "/", "x">>
GO_Y == <<"/", "go", "/", "y">>
RedirectTables == {{}, {GO_X}}

EXT_A == <<"https://", "ext.org", "/">>
EXT_B == <<"http://", "ext.org", "/", "b">>

Hrefs == {
    <<"/", "post">>,
    <<"/", "post", ".html">>,
    <<"/", "post", "/">>,
    <<"post">>,
    <<"post", "/">>,
    <<"..", "/", "post">>,
    <<"post", ".html">>,
    <<"/", "post", "?", "q", "#", "f">>,
    <<"/", "missing">>,
    <<"missing", ".html">>,
    <<"/">>,
    <<" ", "/", "post", " ">>,
    ORIGIN \o <<"post">>,
    EXT_A,
    EXT_B,
    GO_X,
    GO_Y,
    <<"#", "top">>,
    <<>>,
    <<"mailto:", "x">>,
    <<"https://", "google", ".com", "/">> }

RelValues == { {}, {"nofollow"}, {"nofollow", "noopener", "noreferrer"} }

Anchors == [href : Hrefs, rel : RelValues]

StatusCodes == {200, 400, 404}
ErrorTexts == {"ConnectionError"}
H1Counts == {0, 1, 2}

\* ------------------------------------------------------------------------
\* State
\* ------------------------------------------------------------------------
VARIABLES
    files,                  \* regular files on disk (absolute paths, as segment lists)
    pc,                     \* position of the main thread
    base_url,               \* Config.base_url
    redirects,              \* keys of Config.redirects
    score,                  \* Auditor.score
    issues,                 \* Auditor.issues
    internal_links_map,     \* Auditor.internal_links_map: target -> list of sources
    external_links,         \* Auditor.external_links
    soft_route_sources,     \* Auditor.soft_route_sources
    external_link_sources,  \* Auditor.external_link_sources
    pages_audited,          \* Auditor.pages_audited
    processed_files,        \* Auditor.processed_files
    cur,                    \* current_file_rel_path of the page being audited
    href,                   \* the href of the anchor last read by check_links
    nlinks,                 \* anchors read so far
    discovered,             \* the pages in the order traverse met them: history, read by no action
    found,                  \* verify_local_link's local of the last call
    resolved_rel_path,      \* verify_local_link's local of the last call
    inbound_counts,         \* analyze_link_equity's sorted (file, count) list
    fut,                    \* future_to_url: url -> state of its future
    queue,                  \* the executor's work queue
    collected               \* urls whose future the as_completed loop has consumed

vars == <<files, pc, base_url, redirects, score, issues, internal_links_map,
          external_links, soft_route_sources, external_link_sources, pages_audited,
          processed_files, cur, href, nlinks, discovered, found, resolved_rel_path,
          inbound_counts, fut, queue, collected>>

\* ------------------------------------------------------------------------
\* The file system
\* ------------------------------------------------------------------------
\* d is an existing directory: the root of the file system or an ancestor of a file
IsDir(d) == d = <<>> \/ \E f \in files : Len(f) > Len(d) /\ SubSeq(f, 1, Len(d)) = d

\* kernel path walk: every component is looked up in an existing directory
RECURSIVE Walk(_, _)
Walk(segs, acc) ==
    IF segs = <<>> THEN <<TRUE, acc>>
    ELSE IF ~IsDir(acc) THEN <<FALSE, acc>>
    ELSE LET c == segs[1]
         IN  IF c = <<>> \/ c = <<".">> THEN Walk(Tail(segs), acc)
             ELSE IF c = <<"..">>
                  THEN Walk(Tail(segs), IF acc = <<>> THEN acc ELSE SubSeq(acc, 1, Len(acc) - 1))
             ELSE Walk(Tail(segs), Append(acc, c))

\* os.path.isfile(p) for an absolute p
IsFile(p) ==
    LET w == Walk(Tail(Segments(p)), <<>>)
    IN  w[1] /\ w[2] \in files

\* ------------------------------------------------------------------------
\* Config
\* ------------------------------------------------------------------------
should_ignore_path(path) == \E i \in 1..Len(path) : path[i] \in ignore_paths

should_ignore_file(filename) ==
    \/ /\ \E i \in 1..Len(filename) : filename[i] = "google"
       /\ EndsWith(filename, HTML)
       /\ Len(filename) >= 3
       /\ filename[1] = "google" /\ filename[2] \in HexTokens /\ filename[3] = ".html"
    \/ Contains(filename, <<"404", ".html">>)

should_ignore_url(url) ==
    \/ url = <<>>
    \/ url[1] \in ignore_urls_prefixes
    \/ /\ \E i \in 1..Len(url) : url[i] \in {"http://", "https://"}
       /\ \E i \in 1..Len(url) : url[i] \in ignore_urls_domains


\* the pages traverse audits: .html files under the root, not ignored by name,
\* in no ignored directory
PathOf(f) == <<"/">> \o Unsplit(f)

IsPage(f) ==
    /\ StartsWith(PathOf(f), root_dir \o <<"/">>)
    /\ EndsWith(f[Len(f)], HTML)
    /\ ~should_ignore_file(f[Len(f)])
    /\ \A n \in (Len(AbsSegs(root_dir)) + 1)..(Len(f) - 1) :
           ~should_ignore_path(PathOf(SubSeq(f, 1, n)))

Pages == {Relpath(PathOf(f), root_dir) : f \in {g \in files : IsPage(g)}}

\* os.walk is top-down: the files of a directory come before those of its
\* subdirectories
WalkNext(p) ==
    /\ p \in Pages \ processed_files
    /\ \A q \in Pages \ processed_files :
           ~(Len(Dirname(q)) < Len(Dirname(p)) /\ StartsWith(Dirname(p), Dirname(q)))

\* ------------------------------------------------------------------------
\* Issue ledger and score
\* ------------------------------------------------------------------------
Max(a, b) == IF a >= b THEN a ELSE b

Message(kind, file, ref, detail) == <<kind, file, ref, detail>>

\* log_issue without the clamp at zero
log_issue_unclamped(A, level, message, penalty) ==
    [A EXCEPT !.issues = Append(@, [level |-> level, message |-> message, penalty |-> penalty]),
              !.score = @ - penalty]

\* log_issue charging the penalty to a fresh score instead of the running one
log_issue_from_start(A, level, message, penalty) ==
    [A EXCEPT !.issues = Append(@, [level |-> level, message |-> message, penalty |-> penalty]),
              !.score = Max(0, SCORE_START - penalty)]

\* Auditor.log_issue on the auditor record A
log_issue(A, level, message, penalty) ==
    [A EXCEPT !.issues = Append(@, [level |-> level, message |-> message, penalty |-> penalty]),
              !.score = Max(0, @ - penalty)]

\* a source list that keeps each source once
MapAppend_dedup(m, k, v) ==
    IF k \in DOMAIN m
    THEN IF \E i \in 1..Len(m[k]) : m[k][i] = v THEN m ELSE [m EXCEPT ![k] = Append(@, v)]
    ELSE m @@ (k :> <<v>>)

\* defaultdict(list)[k].append(v)
MapAppend(m, k, v) ==
    IF k \in DOMAIN m THEN [m EXCEPT ![k] = Append(@, v)] ELSE m @@ (k :> <<v>>)

\* defaultdict(set)[k].add(v)
MapAdd(m, k, v) ==
    IF k \in DOMAIN m THEN [m EXCEPT ![k] = @ \cup {v}] ELSE m @@ (k :> {v})

\* the auditor's fields as one record
Auditor ==
    [score |-> score, issues |-> issues, internal_links_map |-> internal_links_map,
     external_links |-> external_links, soft_route_sources |-> soft_route_sources,
     external_link_sources |-> external_link_sources,
     found |-> found, resolved_rel_path |-> resolved_rel_path]

\* ------------------------------------------------------------------------
\* Local link resolution
\* ------------------------------------------------------------------------
\* href with query string and fragment removed
clean_href(h) == SplitHead(SplitHead(h, "?"), "#")

\* potential_targets with the directory index tried before path + ".html"
potential_targets_index_first(h, current_file_rel_path) ==
    LET clean == clean_href(h)
        absolute == StartsWith(clean, <<"/">>)
        path == IF absolute THEN Join(root_dir, LStrip(clean, "/"))
                ELSE Normpath(Join(Dirname(Join(root_dir, current_file_rel_path)), clean))
        base == << Join(path, INDEX_HTML), path \o HTML, path >>
    IN  IF EndsWith(clean, HTML) THEN <<path>> \o base ELSE base

\* the ordered candidate list of verify_local_link
potential_targets(h, current_file_rel_path) ==
    LET clean == clean_href(h)
    IN  IF StartsWith(clean, <<"/">>)
        THEN LET path_part == LStrip(clean, "/")
                 base == << Join(root_dir, path_part \o HTML),
                            Join(Join(root_dir, path_part), INDEX_HTML),
                            Join(root_dir, path_part) >>
             IN  IF EndsWith(path_part, HTML)
                 THEN <<Join(root_dir, path_part)>> \o base
                 ELSE base
        ELSE LET current_dir == Dirname(Join(root_dir, current_file_rel_path))
                 target_abs_path == Normpath(Join(current_dir, clean))
                 base == << target_abs_path \o HTML,
                            Join(target_abs_path, INDEX_HTML),
                            target_abs_path >>
             IN  IF EndsWith(clean, HTML)
                 THEN <<target_abs_path>> \o base
                 ELSE base

\* index of the first candidate that is a regular file, 0 when there is none
FirstFile(cands) ==
    IF \E i \in 1..Len(cands) : IsFile(cands[i])
    THEN CHOOSE i \in 1..Len(cands) : IsFile(cands[i]) /\ \A j \in 1..(i - 1) : ~IsFile(cands[j])
    ELSE 0

\* verify_local_link without its "if found": the first candidate is recorded even
\* when nothing exists
verify_local_link_records_failure(A, h, current_file_rel_path) ==
    LET cands == potential_targets(h, current_file_rel_path)
        k == FirstFile(cands)
        resolved == Relpath(cands[IF k > 0 THEN k ELSE 1], root_dir)
        A1 == [A EXCEPT !.found = k > 0,
                        !.resolved_rel_path = IF k > 0 THEN resolved ELSE NoFile,
                        !.internal_links_map = MapAppend(@, resolved, current_file_rel_path)]
    IN  IF k > 0 THEN A1
        ELSE log_issue(A1, "ERROR", Message("DeadLink", current_file_rel_path, h, <<>>),
                       DEAD_LINK_PENALTY)

\* verify_local_link that drops a dead link silently
verify_local_link_silent(A, h, current_file_rel_path) ==
    LET cands == potential_targets(h, current_file_rel_path)
        k == FirstFile(cands)
    IN  IF k > 0
        THEN LET resolved == Relpath(cands[k], root_dir)
             IN  [A EXCEPT !.found = TRUE,
                           !.resolved_rel_path = resolved,
                           !.internal_links_map = MapAppend(@, resolved, current_file_rel_path)]
        ELSE [A EXCEPT !.found = FALSE, !.resolved_rel_path = NoFile]

\* verify_local_link that assigns the source list instead of appending to it:
\* the last page audited wins
verify_local_link_overwrites(A, h, current_file_rel_path) ==
    LET cands == potential_targets(h, current_file_rel_path)
        k == FirstFile(cands)
    IN  IF k > 0
        THEN LET resolved == Relpath(cands[k], root_dir)
             IN  [A EXCEPT !.found = TRUE,
                           !.resolved_rel_path = resolved,
                           !.internal_links_map = (resolved :> <<current_file_rel_path>>) @@ @]
        ELSE log_issue([A EXCEPT !.found = FALSE, !.resolved_rel_path = NoFile],
                       "ERROR", Message("DeadLink", current_file_rel_path, h, <<>>),
                       DEAD_LINK_PENALTY)

\* Auditor.verify_local_link
verify_local_link(A, h, current_file_rel_path) ==
    LET cands == potential_targets(h, current_file_rel_path)
        k == FirstFile(cands)
    IN  IF k > 0
        THEN LET resolved == Relpath(cands[k], root_dir)
             IN  [A EXCEPT !.found = TRUE,
                           !.resolved_rel_path = resolved,
                           !.internal_links_map = MapAppend(@, resolved, current_file_rel_path)]
        ELSE log_issue([A EXCEPT !.found = FALSE, !.resolved_rel_path = NoFile],
                       "ERROR", Message("DeadLink", current_file_rel_path, h, <<>>),
                       DEAD_LINK_PENALTY)

\* a classifier that knows no soft routes
IsSoftRoute_never(h) == FALSE

\* ------------------------------------------------------------------------
\* Classification of one anchor: the body of the loop of check_links
\* ------------------------------------------------------------------------
IsSoftRoute(h) == StartsWith(h, <<"/", "go", "/">>)
IsAbsoluteUrl(h) == h # <<>> /\ h[1] \in {"http://", "https://"}
IsOwnOrigin(h) == base_url # <<>> /\ StartsWith(h, base_url)


\* the rel loop left after its first attribute
missing_rels_first_only(rel) ==
    IF REQUIRED_RELS[1] \notin rel THEN <<REQUIRED_RELS[1]>> ELSE <<>>


missing_rels(rel) == SelectSeq(REQUIRED_RELS, LAMBDA req : req \notin rel)

check_link(A, a, current_file_rel_path) ==
    LET h == Strip(a.href)
    IN  IF should_ignore_url(h) THEN A
        ELSE IF IsSoftRoute(h)
        THEN LET A1 == [A EXCEPT !.soft_route_sources = MapAdd(@, h, current_file_rel_path)]
             IN  IF redirects # {} /\ h \notin redirects
                 THEN log_issue(A1, "WARN", Message("SoftRoute", current_file_rel_path, h, <<>>),
                                SOFT_ROUTE_PENALTY)
                 ELSE A1
        ELSE IF IsAbsoluteUrl(h)
        THEN IF IsOwnOrigin(h)
             THEN LET A1 == log_issue(A, "WARN",
                                      Message("AbsoluteInternal", current_file_rel_path, h, <<>>),
                                      URL_STYLE_PENALTY)
                      stripped == SubSeq(h, Len(base_url) + 1, Len(h))
                      local_part == IF StartsWith(stripped, <<"/">>) THEN stripped
                                    ELSE <<"/">> \o stripped
                  IN  verify_local_link(A1, local_part, current_file_rel_path)
             ELSE LET A1 == [A EXCEPT !.external_links = @ \cup {h},
                                      !.external_link_sources = MapAdd(@, h, current_file_rel_path)]
                  IN  IF missing_rels(a.rel) # <<>>
                      THEN log_issue(A1, "WARN",
                                     Message("ExternalRel", current_file_rel_path, h, missing_rels(a.rel)),
                                     URL_STYLE_PENALTY)
                      ELSE A1
        ELSE LET A1 == IF ~StartsWith(h, <<"/">>)
                       THEN log_issue(A, "WARN", Message("Relative", current_file_rel_path, h, <<>>),
                                      URL_STYLE_PENALTY)
                       ELSE A
                 A2 == IF EndsWith(h, HTML)
                       THEN log_issue(A1, "WARN", Message("HtmlSuffix", current_file_rel_path, h, <<>>),
                                      URL_STYLE_PENALTY)
                       ELSE A1
             IN  verify_local_link(A2, h, current_file_rel_path)

\* Auditor.check_semantics
check_semantics(A, h1s, has_schema, file_path) ==
    LET A1 == IF h1s = 0
              THEN log_issue(A, "ERROR", Message("MissingH1", file_path, <<>>, <<>>), H1_PENALTY)
              ELSE IF h1s > 1
              THEN log_issue(A, "ERROR", Message("MultipleH1", file_path, <<>>, <<h1s>>), H1_PENALTY)
              ELSE A
    IN  IF ~has_schema
        THEN log_issue(A1, "WARN", Message("NoSchema", file_path, <<>>, <<>>), SCHEMA_PENALTY)
        ELSE A1

\* the auditor's fields take the values of record B
SetAuditor(B) ==
    /\ score' = B.score
    /\ issues' = B.issues
    /\ internal_links_map' = B.internal_links_map
    /\ external_links' = B.external_links
    /\ soft_route_sources' = B.soft_route_sources
    /\ external_link_sources' = B.external_link_sources
    /\ found' = B.found
    /\ resolved_rel_path' = B.resolved_rel_path

\* the auditor's fields have the values of record B
SetAuditorTo(B) ==
    /\ score = B.score
    /\ issues = B.issues
    /\ internal_links_map = B.internal_links_map
    /\ external_links = B.external_links
    /\ soft_route_sources = B.soft_route_sources
    /\ external_link_sources = B.external_link_sources
    /\ found = B.found
    /\ resolved_rel_path = B.resolved_rel_path


auditorVars == <<score, issues, internal_links_map, external_links, soft_route_sources,
                 external_link_sources, found, resolved_rel_path>>
configVars == <<base_url, redirects>>
poolVars == <<fut, queue, collected>>
walkVars == <<pages_audited, processed_files, cur, href, nlinks, discovered>>

\* ------------------------------------------------------------------------
\* Init: the process has started, nothing is loaded
\* ------------------------------------------------------------------------
EmptyMap == [k \in {} |-> <<>>]

InitOn(trees) ==
    /\ files \in trees
    /\ pc = "main"
    /\ base_url = <<>>
    /\ redirects = {}
    /\ score = SCORE_START
    /\ issues = <<>>
    /\ internal_links_map = EmptyMap
    /\ external_links = {}
    /\ soft_route_sources = EmptyMap
    /\ external_link_sources = EmptyMap
    /\ pages_audited = 0
    /\ processed_files = {}
    /\ cur = NoFile
    /\ href = <<>>
    /\ nlinks = 0
    /\ discovered = <<>>
    /\ found = FALSE
    /\ resolved_rel_path = NoFile
    /\ inbound_counts = <<>>
    /\ fut = <<>>
    /\ queue = <<>>
    /\ collected = {}

\* ------------------------------------------------------------------------
\* main: load the configuration, construct the auditor
\* ------------------------------------------------------------------------
\* load_from_index returns False: index.html missing or unreadable
MainAbort ==
    /\ pc = "main"
    /\ pc' = "exit1"
    /\ UNCHANGED <<files, configVars, auditorVars, walkVars, inbound_counts, poolVars>>

\* main without the test of load_from_index's result
MainLoad_unchecked(b, r) ==
    /\ pc = "main"
    /\ base_url' = b
    /\ redirects' = r
    /\ pc' = "traverse"
    /\ UNCHANGED <<files, auditorVars, walkVars, inbound_counts, poolVars>>

\* load_from_index and load_redirects succeed, Auditor(config) is built
MainLoad(b, r) ==
    /\ pc = "main"
    /\ IsFile(Join(root_dir, INDEX_HTML))
    /\ base_url' = b
    /\ redirects' = r
    /\ pc' = "traverse"
    /\ UNCHANGED <<files, auditorVars, walkVars, inbound_counts, poolVars>>


\* audit_file without its try/except: a read failure ends the run
AuditFile_raises(p, readable) ==
    /\ pc = "traverse"
    /\ WalkNext(p)
    /\ processed_files' = processed_files \cup {p}
    /\ discovered' = Append(discovered, p)
    /\ pages_audited' = pages_audited + 1
    /\ IF readable
       THEN /\ pc' = "links"
            /\ cur' = p
       ELSE /\ pc' = "exit1"
            /\ cur' = NoFile
    /\ UNCHANGED <<files, configVars, auditorVars, href, nlinks, inbound_counts, poolVars>>

\* ------------------------------------------------------------------------
\* traverse / audit_file
\* ------------------------------------------------------------------------
\* audit_file on the next page of the walk; readable says whether open/read succeed
AuditFile(p, readable) ==
    /\ pc = "traverse"
    /\ WalkNext(p)
    /\ processed_files' = processed_files \cup {p}
    /\ discovered' = Append(discovered, p)
    /\ pages_audited' = pages_audited + 1
    /\ IF readable
       THEN /\ pc' = "links"
            /\ cur' = p
            /\ UNCHANGED auditorVars
       ELSE /\ pc' = "traverse"
            /\ cur' = NoFile
            /\ SetAuditor(log_issue(Auditor, "ERROR", Message("ReadFail", p, <<>>, <<>>),
                                    READ_FAIL_PENALTY))
    /\ UNCHANGED <<files, configVars, href, nlinks, inbound_counts, poolVars>>

\* one iteration of the loop of check_links, on anchor a of the current page
CheckLinks(a) ==
    /\ pc = "links"
    /\ nlinks < MaxLinks
    /\ href' = Strip(a.href)
    /\ nlinks' = nlinks + 1
    /\ SetAuditor(check_link(Auditor, a, cur))
    /\ UNCHANGED <<files, pc, configVars, pages_audited, processed_files, cur, discovered,
                   inbound_counts, poolVars>>

\* the anchors are exhausted: check_semantics, audit_file returns
CheckSemantics(h1s, has_schema) ==
    /\ pc = "links"
    /\ SetAuditor(check_semantics(Auditor, h1s, has_schema, cur))
    /\ pc' = "traverse"
    /\ cur' = NoFile
    /\ UNCHANGED <<files, configVars, pages_audited, processed_files, href, nlinks, discovered,
                   inbound_counts, poolVars>>


\* ------------------------------------------------------------------------
\* analyze_link_equity
\* ------------------------------------------------------------------------
\* the orders in which a Python set may be iterated
Orders(S) ==
    {o \in [1..Cardinality(S) -> S] : \A i, j \in 1..Cardinality(S) : i # j => o[i] # o[j]}

\* len(self.internal_links_map.get(file, []))
inbound_count(m, file) == IF file \in DOMAIN m THEN Len(m[file]) ELSE 0

\* a file is reported as an orphan
is_orphan(m, file) == inbound_count(m, file) = 0

\* the loop over processed_files, in iteration order o: <<auditor, inbound_counts>>
RECURSIVE equity_loop(_, _, _)
equity_loop(A, counts, o) ==
    IF o = <<>> THEN <<A, counts>>
    ELSE LET file == Head(o)
         IN  IF should_ignore_file(file) THEN equity_loop(A, counts, Tail(o))
             ELSE LET count == inbound_count(A.internal_links_map, file)
                      A1 == IF is_orphan(A.internal_links_map, file)
                            THEN log_issue(A, "WARN", Message("Orphan", file, <<>>, <<>>),
                                           ORPHAN_PENALTY)
                            ELSE A
                  IN  equity_loop(A1, Append(counts, <<file, count>>), Tail(o))

\* list.sort(key=count, reverse=True): stable, descending
RECURSIVE sort_desc(_)
\* the list left in the order the loop built it
sort_desc_unsorted(l) == l


sort_desc(l) ==
    IF l = <<>> THEN <<>>
    ELSE LET rest == sort_desc(SubSeq(l, 1, Len(l) - 1))
             x == l[Len(l)]
             ahead == SelectSeq(rest, LAMBDA y : y[2] >= x[2])
             behind == SelectSeq(rest, LAMBDA y : y[2] < x[2])
         IN  ahead \o <<x>> \o behind


\* analyze_link_equity entered while traverse still has pages to audit
AnalyzeLinkEquity_early(o) ==
    /\ pc = "traverse"
    /\ o \in Orders(processed_files)
    /\ LET r == equity_loop(Auditor, <<>>, o)
       IN  /\ SetAuditor(r[1])
           /\ inbound_counts' = sort_desc(r[2])
    /\ pc' = "external"
    /\ UNCHANGED <<files, configVars, walkVars, poolVars>>

\* traverse has returned; analyze_link_equity runs
AnalyzeLinkEquity(o) ==
    /\ pc = "traverse"
    /\ Pages \subseteq processed_files
    /\ o \in Orders(processed_files)
    /\ LET r == equity_loop(Auditor, <<>>, o)
       IN  /\ SetAuditor(r[1])
           /\ inbound_counts' = sort_desc(r[2])
    /\ pc' = "external"
    /\ UNCHANGED <<files, configVars, walkVars, poolVars>>

\* ------------------------------------------------------------------------
\* check_external_links: the worker pool
\* ------------------------------------------------------------------------
Futures == 1..Len(fut)

\* a submission per referencing page instead of one per url
ToSubmit_per_source ==
    {u \in external_links :
        Cardinality({f \in 1..Len(fut) : fut[f].url = u}) < Cardinality(external_link_sources[u])}

\* urls the submitting comprehension has not reached yet
ToSubmit == external_links \ {fut[f].url : f \in Futures}

\* futures a worker thread is executing
Running == {f \in Futures : fut[f].st \in {"head", "get"}}

\* head records how the HEAD ended ("" while it has not): history, read by no action
NewFuture(u) ==
    [url |-> u, st |-> "queued", reqs |-> <<>>, code |-> None, error |-> "", raised |-> FALSE,
     head |-> ""]

\* check_external_links is entered
CheckExternalLinks ==
    /\ pc = "external"
    /\ pc' = IF external_links = {} THEN "report" ELSE "pool"
    /\ UNCHANGED <<files, configVars, auditorVars, walkVars, inbound_counts, poolVars>>

\* executor.submit(self.verify_url, url)
Submit(u) ==
    /\ pc = "pool"
    /\ u \in ToSubmit
    /\ fut' = Append(fut, NewFuture(u))
    /\ queue' = Append(queue, Len(fut) + 1)
    /\ UNCHANGED <<files, pc, configVars, auditorVars, walkVars, inbound_counts, collected>>

\* a pool that starts a probe for every queued item at once
WorkerStart_unbounded ==
    /\ pc = "pool"
    /\ queue # <<>>
    /\ fut' = [fut EXCEPT ![Head(queue)].st = "head", ![Head(queue)].reqs = Append(@, "HEAD")]
    /\ queue' = Tail(queue)
    /\ UNCHANGED <<files, pc, configVars, auditorVars, walkVars, inbound_counts, collected>>

\* a free worker takes the next work item and verify_url sends the HEAD
WorkerStart ==
    /\ pc = "pool"
    /\ queue # <<>>
    /\ Cardinality(Running) < max_workers
    /\ fut' = [fut EXCEPT ![Head(queue)].st = "head", ![Head(queue)].reqs = Append(@, "HEAD")]
    /\ queue' = Tail(queue)
    /\ UNCHANGED <<files, pc, configVars, auditorVars, walkVars, inbound_counts, collected>>

\* what a request can do: answer with a status, raise requests.RequestException,
\* raise anything else
Outcomes == [kind : {"status"}, code : StatusCodes, text : {""}]
            \cup [kind : {"request_exception", "exception"}, code : {None}, text : ErrorTexts]

\* verify_url falling back to GET on an error status too
after_head_get_on_error_status(F, out) ==
    IF out.kind = "status" /\ out.code < 400 THEN [F EXCEPT !.st = "done", !.code = out.code]
    ELSE IF out.kind \in {"status", "request_exception"}
    THEN [F EXCEPT !.st = "get", !.reqs = Append(@, "GET")]
    ELSE [F EXCEPT !.st = "done", !.raised = TRUE, !.error = out.text]

\* verify_url after the HEAD returned or raised
after_head(F, out) ==
    IF out.kind = "status" THEN [F EXCEPT !.st = "done", !.code = out.code]
    ELSE IF out.kind = "request_exception" THEN [F EXCEPT !.st = "get", !.reqs = Append(@, "GET")]
    ELSE [F EXCEPT !.st = "done", !.raised = TRUE, !.error = out.text]

\* verify_url after the fallback GET returned or raised
after_get(F, out) ==
    IF out.kind = "status" THEN [F EXCEPT !.st = "done", !.code = out.code]
    ELSE IF out.kind = "request_exception" THEN [F EXCEPT !.st = "done", !.error = out.text]
    ELSE [F EXCEPT !.st = "done", !.raised = TRUE, !.error = out.text]


\* verify_url reporting an error status itself, from the worker thread
VerifyUrlHead_logs(f, out) ==
    /\ pc = "pool"
    /\ f \in Futures
    /\ fut[f].st = "head"
    /\ fut' = [fut EXCEPT ![f] = [after_head(@, out) EXCEPT !.head = out.kind]]
    /\ IF out.kind = "status" /\ out.code >= 400
       THEN SetAuditor(log_issue(Auditor, "ERROR",
                                 Message("ExtDead", NoFile, fut[f].url, <<out.code>>),
                                 EXTERNAL_PENALTY))
       ELSE UNCHANGED auditorVars
    /\ UNCHANGED <<files, pc, configVars, walkVars, inbound_counts, queue, collected>>


VerifyUrlHead(f, out) ==
    /\ pc = "pool"
    /\ f \in Futures
    /\ fut[f].st = "head"
    /\ fut' = [fut EXCEPT ![f] = [after_head(@, out) EXCEPT !.head = out.kind]]
    /\ UNCHANGED <<files, pc, configVars, auditorVars, walkVars, inbound_counts, queue, collected>>

VerifyUrlGet(f, out) ==
    /\ pc = "pool"
    /\ f \in Futures
    /\ fut[f].st = "get"
    /\ fut' = [fut EXCEPT ![f] = after_get(@, out)]
    /\ UNCHANGED <<files, pc, configVars, auditorVars, walkVars, inbound_counts, queue, collected>>

\* the folding with "code > 400" for "code >= 400"
fold_result_above_400(A, F) ==
    IF F.raised
    THEN log_issue(A, "ERROR", Message("ExtException", NoFile, F.url, <<F.error>>), EXTERNAL_PENALTY)
    ELSE IF F.code # None /\ F.code # 0 /\ F.code > 400
    THEN log_issue(A, "ERROR", Message("ExtDead", NoFile, F.url, <<F.code>>), EXTERNAL_PENALTY)
    ELSE IF F.error # ""
    THEN log_issue(A, "ERROR", Message("ExtError", NoFile, F.url, <<F.error>>), EXTERNAL_PENALTY)
    ELSE A

\* a folding that reports only the first failure it meets
fold_result_first_only(A, F) ==
    IF \E k \in 1..Len(A.issues) : A.issues[k].message[1] \in {"ExtDead", "ExtError", "ExtException"}
    THEN A
    ELSE IF F.raised
    THEN log_issue(A, "ERROR", Message("ExtException", NoFile, F.url, <<F.error>>), EXTERNAL_PENALTY)
    ELSE IF F.code # None /\ F.code # 0 /\ F.code >= 400
    THEN log_issue(A, "ERROR", Message("ExtDead", NoFile, F.url, <<F.code>>), EXTERNAL_PENALTY)
    ELSE IF F.error # ""
    THEN log_issue(A, "ERROR", Message("ExtError", NoFile, F.url, <<F.error>>), EXTERNAL_PENALTY)
    ELSE A

\* the body of the as_completed loop for one finished future
fold_result(A, F) ==
    IF F.raised
    THEN log_issue(A, "ERROR", Message("ExtException", NoFile, F.url, <<F.error>>), EXTERNAL_PENALTY)
    ELSE IF F.code # None /\ F.code # 0 /\ F.code >= 400
    THEN log_issue(A, "ERROR", Message("ExtDead", NoFile, F.url, <<F.code>>), EXTERNAL_PENALTY)
    ELSE IF F.error # ""
    THEN log_issue(A, "ERROR", Message("ExtError", NoFile, F.url, <<F.error>>), EXTERNAL_PENALTY)
    ELSE A

\* the as_completed loop over the finished futures of the urls U, taken in one
\* fixed order
RECURSIVE as_completed_loop(_, _)
as_completed_loop(A, U) ==
    IF U = {} THEN A
    ELSE LET u == CHOOSE v \in U : TRUE
             f == CHOOSE g \in 1..Len(fut) : fut[g].url = u
         IN  as_completed_loop(fold_result(A, fut[f]), U \ {u})

\* as_completed yields a finished future; the main thread folds its result
AsCompleted(f) ==
    /\ pc = "pool"
    /\ ToSubmit = {}
    /\ f \in Futures \ collected
    /\ fut[f].st = "done"
    /\ collected' = collected \cup {f}
    /\ SetAuditor(fold_result(Auditor, fut[f]))
    /\ UNCHANGED <<files, pc, configVars, walkVars, inbound_counts, fut, queue>>

\* the result loop left after the first result
PoolExit_first_result ==
    /\ pc = "pool"
    /\ ToSubmit = {}
    /\ collected # {}
    /\ pc' = "report"
    /\ UNCHANGED <<files, configVars, auditorVars, walkVars, inbound_counts, poolVars>>

\* every future is consumed; the with-block shuts the executor down
PoolExit ==
    /\ pc = "pool"
    /\ ToSubmit = {}
    /\ collected = Futures
    /\ pc' = "report"
    /\ UNCHANGED <<files, configVars, auditorVars, walkVars, inbound_counts, poolVars>>

\* report prints; run returns
Report ==
    /\ pc = "report"
    /\ pc' = "done"
    /\ UNCHANGED <<files, configVars, auditorVars, walkVars, inbound_counts, poolVars>>

\* ------------------------------------------------------------------------
\* The program
\* ------------------------------------------------------------------------
\* main and traverse, with the inputs of I
Traversal(I) ==
    \/ MainAbort
    \/ \E c \in I.configs : MainLoad(c.base_url, c.redirects)
    \/ \E p \in Pages, readable \in I.readable : AuditFile(p, readable)
    \/ \E a \in I.anchors : CheckLinks(a)
    \/ \E s \in I.semantics : CheckSemantics(s.h1s, s.has_schema)

\* analyze_link_equity
Analysis == \E o \in Orders(processed_files) : AnalyzeLinkEquity(o)

\* check_external_links and report, with the network outcomes of I
Verification(I) ==
    \/ CheckExternalLinks
    \/ \E u \in external_links : Submit(u)
    \/ WorkerStart
    \/ \E f \in Futures, out \in I.outcomes : VerifyUrlHead(f, out)
    \/ \E f \in Futures, out \in I.outcomes : VerifyUrlGet(f, out)
    \/ \E f \in Futures : AsCompleted(f)
    \/ PoolExit
    \/ Report

\* ------------------------------------------------------------------------
\* A whole run: main, traverse, analyze_link_equity, check_external_links, report
\* ------------------------------------------------------------------------
RunTrees == {{}, {F_index}, {F_index, F_post_html}}
RunAnchors ==
    { [href |-> <<"/", "post">>, rel |-> {}],
      [href |-> <<"/">>, rel |-> {}],
      [href |-> <<"/", "missing">>, rel |-> {}],
      [href |-> EXT_A, rel |-> {}],
      [href |-> EXT_A, rel |-> {"nofollow", "noopener", "noreferrer"}] }
RunOutcomes ==
    { [kind |-> "status", code |-> 200, text |-> ""],
      [kind |-> "status", code |-> 404, text |-> ""],
      [kind |-> "request_exception", code |-> None, text |-> "ConnectionError"],
      [kind |-> "exception", code |-> None, text |-> "ConnectionError"] }
RunInputs ==
    [configs |-> {[base_url |-> ORIGIN, redirects |-> {GO_X}]},
     readable |-> BOOLEAN,
     anchors |-> RunAnchors,
     semantics |-> {[h1s |-> 1, has_schema |-> TRUE], [h1s |-> 0, has_schema |-> FALSE]},
     outcomes |-> RunOutcomes]

Init == InitOn(RunTrees)

Next == Traversal(RunInputs) \/ Analysis \/ Verification(RunInputs)

Spec == Init /\ [][Next]_vars

\* ------------------------------------------------------------------------
\* Traversal alone, over every internal href and every file tree
\* ------------------------------------------------------------------------
InternalHrefs == {h \in Hrefs : ~should_ignore_url(Strip(h)) /\ ~IsSoftRoute(h)
                                /\ (IsAbsoluteUrl(h) => StartsWith(h, ORIGIN))}
ResolveInputs ==
    [configs |-> {[base_url |-> ORIGIN, redirects |-> {GO_X}]},
     readable |-> {TRUE},
     anchors |-> [href : InternalHrefs, rel : {{}}],
     semantics |-> {[h1s |-> 1, has_schema |-> TRUE]},
     outcomes |-> {}]

ResolveInit == InitOn(FileTrees)

ResolveNext == Traversal(ResolveInputs)

ResolveSpec == ResolveInit /\ [][ResolveNext]_vars

\* ------------------------------------------------------------------------
\* A run over pages that hold external anchors only, with every network outcome
\* ------------------------------------------------------------------------
PoolInputs ==
    [configs |-> {[base_url |-> ORIGIN, redirects |-> {}]},
     readable |-> {TRUE},
     anchors |-> [href : {EXT_A, EXT_B}, rel : {{"nofollow", "noopener", "noreferrer"}}],
     semantics |-> {[h1s |-> 1, has_schema |-> TRUE]},
     outcomes |-> Outcomes]

PoolInit == InitOn({{F_index, F_post_html}})

PoolNext == Traversal(PoolInputs) \/ Analysis \/ Verification(PoolInputs)

PoolSpec == PoolInit /\ [][PoolNext]_vars

\* the pool's threads run, every request returns or times out, and the main
\* thread goes on whenever it can
FairPoolSpec == PoolInit /\ [][PoolNext]_vars /\ WF_vars(Verification(PoolInputs))

\* ------------------------------------------------------------------------
\* log_issue alone, called with any level and penalty
\* ------------------------------------------------------------------------
\* a dead link, an orphan page, an unreadable file
LedgerInputs ==
    { [level |-> "ERROR", penalty |-> DEAD_LINK_PENALTY],
      [level |-> "WARN", penalty |-> ORPHAN_PENALTY],
      [level |-> "ERROR", penalty |-> READ_FAIL_PENALTY] }

LogIssue(level, penalty) ==
    /\ pc = "traverse"
    /\ Len(issues) < MaxLedger
    /\ SetAuditor(log_issue(Auditor, level, Message("Test", NoFile, <<>>, <<>>), penalty))
    /\ UNCHANGED <<files, pc, configVars, walkVars, inbound_counts, poolVars>>

LedgerInit == InitOn({{F_index}})

LedgerNext ==
    \/ MainLoad(ORIGIN, {})
    \/ \E i \in LedgerInputs : LogIssue(i.level, i.penalty)

LedgerSpec == LedgerInit /\ [][LedgerNext]_vars



\* ------------------------------------------------------------------------
\* A run in which a page may be unreadable and a request may fail in any way
\* ------------------------------------------------------------------------
IsolationInputs ==
    [configs |-> {[base_url |-> ORIGIN, redirects |-> {}]},
     readable |-> BOOLEAN,
     anchors |-> [href : {EXT_A, EXT_B}, rel : {{"nofollow", "noopener", "noreferrer"}}],
     semantics |-> {[h1s |-> 1, has_schema |-> TRUE]},
     outcomes |-> Outcomes]

IsolationInit == InitOn({{F_index, F_post_html}})

IsolationNext ==
    Traversal(IsolationInputs) \/ Analysis \/ Verification(IsolationInputs)

\* the pool's threads run, every request returns or times out, and the main
\* thread goes on whenever it can
IsolationSpec ==
    IsolationInit /\ [][IsolationNext]_vars /\ WF_vars(Verification(IsolationInputs))



\* ------------------------------------------------------------------------
\* Traversal alone, over hrefs of every class and both redirect tables
\* ------------------------------------------------------------------------
ORIGIN_GOOGLE == ORIGIN \o <<"google", "-guide">>
ORIGIN_POST_HTML == ORIGIN \o <<"post", ".html">>
ClassifyHrefs ==
    { ORIGIN_GOOGLE,
      ORIGIN_POST_HTML,
      ORIGIN \o <<"missing">>,
      GO_X,
      GO_Y,
      <<"post", ".html">>,
      <<"missing", ".html">>,
      <<"/", "post">>,
      <<"/", "missing">>,
      <<"https://", "google", ".com", "/">>,
      EXT_A }

ClassifyInputs ==
    [configs |-> [base_url : {ORIGIN}, redirects : RedirectTables],
     readable |-> {TRUE},
     anchors |-> [href : ClassifyHrefs, rel : {{}}],
     semantics |-> {[h1s |-> 1, has_schema |-> TRUE]},
     outcomes |-> {}]

ClassifyInit == InitOn({{F_index, F_post_html}})

ClassifyNext == Traversal(ClassifyInputs)

ClassifySpec == ClassifyInit /\ [][ClassifyNext]_vars



\* ------------------------------------------------------------------------
\* The local audit of one given site: index.html links to /a and /b, a.html
\* exists and has no anchors, nothing exists for /b; headings and structured
\* data of the two pages are left open
\* ------------------------------------------------------------------------
F_a_html == <<<<"site">>, <<"a", ".html">>>>
A_HTML == <<"a", ".html">>
ScenarioLinks == << [href |-> <<"/", "a">>, rel |-> {}], [href |-> <<"/", "b">>, rel |-> {}] >>
ScenarioSemantics == [h1s : H1Counts, has_schema : BOOLEAN]

ScenarioInit == InitOn({{F_index, F_a_html}})

ScenarioNext ==
    \/ MainAbort
    \/ MainLoad(ORIGIN, {})
    \/ \E p \in Pages : AuditFile(p, TRUE)
    \/ /\ cur = INDEX_HTML
       /\ nlinks < Len(ScenarioLinks)
       /\ CheckLinks(ScenarioLinks[nlinks + 1])
    \/ /\ cur = INDEX_HTML => nlinks = Len(ScenarioLinks)
       /\ \E s \in ScenarioSemantics : CheckSemantics(s.h1s, s.has_schema)
    \/ Analysis

ScenarioSpec == ScenarioInit /\ [][ScenarioNext]_vars


\* ------------------------------------------------------------------------
\* The local audit of a site whose pages have given contents, walked in any
\* order os.walk may produce, against the same audit done on a fresh Auditor
\* in one fixed order
\* ------------------------------------------------------------------------
IdemTrees == {F \in SUBSET {F_index, F_a_html, F_post_html, F_post_index} : F_index \in F}

\* soup.find_all('a', href=True) of each page
PageLinks(p) ==
    IF p = INDEX_HTML THEN << [href |-> ORIGIN \o <<"post">>, rel |-> {}] >>
    ELSE IF p = A_HTML THEN << [href |-> <<"post", ".html">>, rel |-> {}] >>
    ELSE <<>>

\* the h1 tags and the ld+json script of each page
PageSemantics(p) ==
    IF p = INDEX_HTML THEN [h1s |-> 1, has_schema |-> TRUE]
    ELSE IF p = A_HTML THEN [h1s |-> 0, has_schema |-> FALSE]
    ELSE [h1s |-> 2, has_schema |-> TRUE]

\* anchors of the pages whose audit_file has returned
RECURSIVE LinksOf(_)
LinksOf(S) ==
    IF S = {} THEN 0
    ELSE LET p == CHOOSE q \in S : TRUE IN Len(PageLinks(p)) + LinksOf(S \ {p})

\* anchors of the current page that check_links has read
LinksRead == nlinks - LinksOf(processed_files \ {cur})

IdemInit == InitOn(IdemTrees)

IdemNext ==
    \/ MainAbort
    \/ \E b \in BaseUrls, r \in RedirectTables : MainLoad(b, r)
    \/ \E p \in Pages : AuditFile(p, TRUE)
    \/ /\ pc = "links"
       /\ LinksRead < Len(PageLinks(cur))
       /\ CheckLinks(PageLinks(cur)[LinksRead + 1])
    \/ /\ pc = "links"
       /\ LinksRead = Len(PageLinks(cur))
       /\ CheckSemantics(PageSemantics(cur).h1s, PageSemantics(cur).has_schema)

IdemSpec == IdemInit /\ [][IdemNext]_vars

\* Auditor.__init__
FreshAuditor ==
    [score |-> SCORE_START, issues |-> <<>>, internal_links_map |-> EmptyMap,
     external_links |-> {}, soft_route_sources |-> EmptyMap,
     external_link_sources |-> EmptyMap, found |-> FALSE, resolved_rel_path |-> NoFile]

\* the loop of check_links over the anchors of one page
RECURSIVE check_links(_, _, _)
check_links(A, links, current_file_rel_path) ==
    IF links = <<>> THEN A
    ELSE check_links(check_link(A, Head(links), current_file_rel_path), Tail(links),
                     current_file_rel_path)

\* audit_file on a readable page
audit_file(A, p) ==
    check_semantics(check_links(A, PageLinks(p), p),
                    PageSemantics(p).h1s, PageSemantics(p).has_schema, p)

\* traverse over the pages in the order o
RECURSIVE traverse(_, _)
traverse(A, o) ==
    IF o = <<>> THEN A ELSE traverse(audit_file(A, Head(o)), Tail(o))

\* a second run over the same site, on a fresh Auditor
SecondRun == traverse(FreshAuditor, CHOOSE o \in Orders(Pages) : TRUE)


\* ------------------------------------------------------------------------
\* check_external_links on more urls than the pool has workers: the run has
\* audited a home page that holds MaxUrls external anchors, every probe is
\* answered 200, and the set of urls is iterated in one order
\* ------------------------------------------------------------------------
UrlNames == <<"u01", "u02", "u03", "u04", "u05", "u06", "u07", "u08", "u09", "u10",
              "u11", "u12", "u13", "u14">>

WidthAnchors ==
    [k \in 1..MaxUrls |-> [href |-> EXT_A \o <<UrlNames[k]>>,
                           rel |-> {"nofollow", "noopener", "noreferrer"}]]

\* traverse and analyze_link_equity on that site
WidthAudit ==
    equity_loop(check_semantics(check_links(FreshAuditor, WidthAnchors, INDEX_HTML),
                                1, TRUE, INDEX_HTML),
                <<>>, <<INDEX_HTML>>)

\* run() is about to call check_external_links
WidthInit ==
    /\ files = {F_index}
    /\ pc = "external"
    /\ base_url = ORIGIN
    /\ redirects = {}
    /\ SetAuditorTo(WidthAudit[1])
    /\ pages_audited = 1
    /\ processed_files = {INDEX_HTML}
    /\ cur = NoFile
    /\ href = WidthAnchors[MaxUrls].href
    /\ nlinks = MaxUrls
    /\ discovered = <<INDEX_HTML>>
    /\ inbound_counts = sort_desc(WidthAudit[2])
    /\ fut = <<>>
    /\ queue = <<>>
    /\ collected = {}

WidthNext ==
    \/ CheckExternalLinks
    \/ ToSubmit # {} /\ Submit(CHOOSE u \in ToSubmit : TRUE)
    \/ WorkerStart
    \/ \E f \in Futures : VerifyUrlHead(f, [kind |-> "status", code |-> 200, text |-> ""])
    \/ \E f \in Futures : AsCompleted(f)
    \/ PoolExit
    \/ Report

WidthSpec == WidthInit /\ [][WidthNext]_vars

\* ------------------------------------------------------------------------
\* Traversal over anchors that are dropped or are soft routes, next to ordinary
\* ones, on a site where a file stands at the path a soft route names
\* ------------------------------------------------------------------------
F_go_x_html == <<<<"site">>, <<"go">>, <<"x", ".html">>>>

FrameHrefs ==
    { <<>>,
      <<" ">>,
      <<"javascript:", "x">>,
      <<"mailto:", "x">>,
      <<"tel:", "x">>,
      <<"#", "top">>,
      <<"https://", "google", ".com", "/">>,
      <<"http://", "ext.org", "/", "cdn-cgi", "/">>,
      GO_X,
      GO_Y,
      <<" ", "/", "go", "/", "x", " ">>,
      <<"/", "post">>,
      EXT_A }

FrameInputs ==
    [configs |-> [base_url : {ORIGIN}, redirects : RedirectTables],
     readable |-> {TRUE},
     anchors |-> [href : FrameHrefs, rel : {{}}],
     semantics |-> {[h1s |-> 1, has_schema |-> TRUE]},
     outcomes |-> {}]

FrameInit == InitOn({{F_index, F_go_x_html}})

FrameNext == Traversal(FrameInputs)

FrameSpec == FrameInit /\ [][FrameNext]_vars

\* ========================================================================
\* Properties
\* ========================================================================
\* a step of check_links read one more anchor
LinkStep == nlinks' = nlinks + 1

\* the issues a step appended
NewIssues == SubSeq(issues', Len(issues) + 1, Len(issues'))

\* the href handed to verify_local_link for anchor href h: the part after the
\* site origin, rooted, for an absolute internal link
LocalHref(h) ==
    IF IsAbsoluteUrl(h)
    THEN LET stripped == SubSeq(h, Len(base_url) + 1, Len(h))
         IN  IF StartsWith(stripped, <<"/">>) THEN stripped ELSE <<"/">> \o stripped
    ELSE h

\* h is an internal reference: neither ignored, nor a soft route, nor external
IsInternal(h) ==
    /\ ~should_ignore_url(h)
    /\ ~IsSoftRoute(h)
    /\ IsAbsoluteUrl(h) => IsOwnOrigin(h)

\* the path an internal href names: under the site root when it starts with "/",
\* else relative to the directory of page c, normalised
TargetPath(h, c) ==
    LET clean == clean_href(h)
    IN  IF StartsWith(clean, <<"/">>) THEN Join(root_dir, LStrip(clean, "/"))
        ELSE Normpath(Join(Dirname(Join(root_dir, c)), clean))

\* the four candidate forms, in the order of the claim; 0 stands for none
FirstForm(h, c) ==
    LET path == TargetPath(h, c)
    IN  IF EndsWith(clean_href(h), HTML) /\ IsFile(path) THEN 1
        ELSE IF IsFile(path \o HTML) THEN 2
        ELSE IF IsFile(Join(path, INDEX_HTML)) THEN 3
        ELSE IF IsFile(path) THEN 4
        ELSE 0

FormPath(n, h, c) ==
    LET path == TargetPath(h, c)
    IN  IF n = 2 THEN path \o HTML ELSE IF n = 3 THEN Join(path, INDEX_HTML) ELSE path

\* the target exists under at least one candidate form
Resolvable(h, c) == FirstForm(h, c) # 0

IsDeadLinkIssue(i, c, h) ==
    /\ i.level = "ERROR"
    /\ i.penalty = 10
    /\ i.message = <<"DeadLink", c, h, <<>>>>

Count(seq, P(_)) == Len(SelectSeq(seq, P))

\* ------------------------------------------------------------------------
\* C1: an internal href resolves to the first existing regular file among
\* (1) the exact path when the href ends in ".html", (2) path + ".html",
\* (3) path/index.html, (4) the exact path; "/post" resolves to post.html when
\* post.html and post/index.html both exist.
\* ------------------------------------------------------------------------
C1_FirstMatch ==
    [][ (LinkStep /\ IsInternal(href')) =>
          LET h == LocalHref(href')
              n == FirstForm(h, cur)
          IN  /\ found' = (n # 0)
              /\ n # 0 => resolved_rel_path' = Relpath(FormPath(n, h, cur), root_dir)
              /\ n = 0 => resolved_rel_path' = NoFile
              /\ (href' = <<"/", "post">> /\ F_post_html \in files /\ F_post_index \in files)
                     => resolved_rel_path' = <<"post", ".html">> ]_vars

C1_Witness ==
    /\ pc = "links"
    /\ href = <<"/", "post">>
    /\ F_post_html \in files /\ F_post_index \in files
    /\ found
    /\ resolved_rel_path = <<"post", ".html">>
    /\ <<"post", ".html">> \in DOMAIN internal_links_map

\* ------------------------------------------------------------------------
\* C2: a resolvable internal reference succeeds and appends the source page to
\* the LinkGraph entry of the resolved target; every LinkGraph key is a regular
\* file; a reference that does not resolve records nothing.
\* ------------------------------------------------------------------------
C2_KeysExist == \A k \in DOMAIN internal_links_map : IsFile(Join(root_dir, k))

C2_Records ==
    /\ []C2_KeysExist
    /\ [][ (LinkStep /\ IsInternal(href')) =>
             LET h == LocalHref(href')
                 t == resolved_rel_path'
                 before == IF t \in DOMAIN internal_links_map THEN internal_links_map[t] ELSE <<>>
             IN  IF Resolvable(h, cur)
                 THEN /\ found'
                      /\ DOMAIN internal_links_map' = DOMAIN internal_links_map \cup {t}
                      /\ internal_links_map'[t] = Append(before, cur)
                      /\ \A k \in DOMAIN internal_links_map \ {t} :
                             internal_links_map'[k] = internal_links_map[k]
                 ELSE /\ ~found'
                      /\ internal_links_map' = internal_links_map ]_vars

C2_Witness ==
    /\ pc = "links"
    /\ found
    /\ resolved_rel_path \in DOMAIN internal_links_map
    /\ Len(internal_links_map[resolved_rel_path]) = 2
    /\ internal_links_map[resolved_rel_path][2] = cur

\* ------------------------------------------------------------------------
\* C3: an internal reference that exists under no candidate form yields exactly
\* one ERROR dead-link issue with penalty 10 for that reference and leaves the
\* LinkGraph unchanged.
\* ------------------------------------------------------------------------
C3_DeadLink ==
    [][ (LinkStep /\ IsInternal(href') /\ ~Resolvable(LocalHref(href'), cur)) =>
          /\ internal_links_map' = internal_links_map
          /\ SubSeq(issues', 1, Len(issues)) = issues
          /\ Count(NewIssues, LAMBDA i : i.message[1] = "DeadLink") = 1
          /\ Count(NewIssues, LAMBDA i : IsDeadLinkIssue(i, cur, LocalHref(href'))) = 1
          /\ Count(NewIssues, LAMBDA i : i.level = "ERROR") = 1 ]_vars

C3_Witness ==
    /\ pc = "links"
    /\ nlinks > 0
    /\ ~found
    /\ href = <<"missing", ".html">>
    /\ issues # <<>>
    /\ issues[Len(issues)] = [level |-> "ERROR", penalty |-> 10,
                              message |-> <<"DeadLink", cur, href, <<>>>>]
    /\ internal_links_map = EmptyMap

\* ------------------------------------------------------------------------
\* C4: once the equity analysis has run, a discovered page with zero inbound
\* links has exactly one orphan WARN issue with penalty 5, and the home page
\* index.html, like every page with an inbound link, has none.
\* ------------------------------------------------------------------------
OrphanIssues(p) ==
    SelectSeq(issues, LAMBDA i : i.message[1] = "Orphan" /\ i.message[2] = p)

C4_HomeExempt ==
    pc \in {"external", "pool", "report", "done"} =>
        \A p \in processed_files :
            IF p # INDEX_HTML /\ inbound_count(internal_links_map, p) = 0
            THEN /\ Len(OrphanIssues(p)) = 1
                 /\ OrphanIssues(p)[1].level = "WARN"
                 /\ OrphanIssues(p)[1].penalty = 5
            ELSE OrphanIssues(p) = <<>>

\* ------------------------------------------------------------------------
\* C5: the score is max(0, 100 - the sum of the penalties of the issues
\* recorded so far).
\* ------------------------------------------------------------------------
RECURSIVE SumPenalties(_)
SumPenalties(l) == IF l = <<>> THEN 0 ELSE l[1].penalty + SumPenalties(Tail(l))

C5_ScoreIsClampedSum ==
    LET rest == 100 - SumPenalties(issues)
    IN  score = IF rest > 0 THEN rest ELSE 0

C5_Witness ==
    /\ SumPenalties(issues) > 100
    /\ score = 0

\* ------------------------------------------------------------------------
\* C6: the score never increases and stays within 0..100.
\* ------------------------------------------------------------------------
C6_ScoreMonotone ==
    /\ [](score \in 0..100)
    /\ [][score' <= score]_vars

C6_Witness ==
    /\ Len(issues) >= 3
    /\ issues[Len(issues)].penalty = 0
    /\ issues[Len(issues) - 1].penalty = 10
    /\ score = 0

\* ------------------------------------------------------------------------
\* C7: a distinct external url is submitted and probed at most once and yields
\* at most one verification issue, however many pages reference it; when the
\* pool is left every collected url was submitted exactly once.
\* ------------------------------------------------------------------------
FuturesOf(u) == {f \in Futures : fut[f].url = u}

VerificationIssues(u) ==
    SelectSeq(issues, LAMBDA i : /\ i.message[1] \in {"ExtDead", "ExtError", "ExtException"}
                                 /\ i.message[3] = u)

C7_OncePerUrl ==
    \A u \in external_links :
        /\ Cardinality(FuturesOf(u)) <= 1
        /\ \A f \in FuturesOf(u) : Count(fut[f].reqs, LAMBDA r : r = "HEAD") <= 1
        /\ Len(VerificationIssues(u)) <= 1
        /\ pc \in {"report", "done"} => Cardinality(FuturesOf(u)) = 1

C7_Witness ==
    /\ pc = "done"
    /\ \E u \in external_links :
          /\ Cardinality(external_link_sources[u]) = 2
          /\ Cardinality(FuturesOf(u)) = 1
          /\ Len(VerificationIssues(u)) = 1

\* ------------------------------------------------------------------------
\* C8: verification sends a HEAD first and a GET if and only if the HEAD raised
\* a request exception; a HEAD that returned a status, error statuses included,
\* is final; no url gets more than two requests.
\* ------------------------------------------------------------------------
C8_HeadThenGet ==
    \A f \in Futures :
        /\ fut[f].reqs \in {<<>>, <<"HEAD">>, <<"HEAD", "GET">>}
        /\ ("GET" \in {fut[f].reqs[i] : i \in 1..Len(fut[f].reqs)})
               <=> (fut[f].head = "request_exception")
        /\ fut[f].head = "status" => /\ fut[f].st = "done"
                                     /\ fut[f].code # None

C8_Witness ==
    /\ pc = "report"
    /\ \E f, g \in Futures :
          /\ fut[f].head = "status" /\ fut[f].code = 404 /\ fut[f].reqs = <<"HEAD">>
          /\ fut[g].head = "request_exception" /\ fut[g].reqs = <<"HEAD", "GET">>
          /\ fut[g].code = 200

\* ------------------------------------------------------------------------
\* C9: a collected url whose final status is below 400 has no verification
\* issue; one whose final status is 400 or above has exactly one, an ERROR with
\* penalty 5; one whose HEAD and GET both failed has exactly one, an ERROR with
\* penalty 5.
\* ------------------------------------------------------------------------
OneError(u) ==
    /\ Len(VerificationIssues(u)) = 1
    /\ VerificationIssues(u)[1].level = "ERROR"
    /\ VerificationIssues(u)[1].penalty = 5

C9_Folding ==
    \A f \in Futures :
        LET F == fut[f]
        IN  IF f \notin collected THEN VerificationIssues(F.url) = <<>>
            ELSE /\ (F.code # None /\ F.code < 400) => VerificationIssues(F.url) = <<>>
                 /\ (F.code # None /\ F.code >= 400) => OneError(F.url)
                 /\ (F.code = None /\ F.reqs = <<"HEAD", "GET">>) => OneError(F.url)

C9_Witness ==
    /\ pc = "done"
    /\ \E f, g \in collected :
          /\ fut[f].code = 400 /\ OneError(fut[f].url)
          /\ fut[g].code = None /\ fut[g].reqs = <<"HEAD", "GET">> /\ ~fut[g].raised
          /\ OneError(fut[g].url)

\* ------------------------------------------------------------------------
\* C10: check_external_links always completes, with one result per url: every
\* url was handed to a worker exactly once, and every result was collected.
\* ------------------------------------------------------------------------
C10_Delivered ==
    /\ Len(fut) = Cardinality(external_links)
    /\ \A u \in external_links : Cardinality(FuturesOf(u)) = 1
    /\ \A f \in Futures : /\ Count(fut[f].reqs, LAMBDA r : r = "HEAD") = 1
                          /\ fut[f].st = "done"
    /\ collected = Futures
    /\ queue = <<>>

C11_CoordinatorOnly ==
    [][ pc = "pool" =>
          /\ (fut' # fut \/ queue' # queue) =>
                 UNCHANGED <<auditorVars, configVars, walkVars, inbound_counts, collected>>
          /\ (auditorVars' # auditorVars) =>
                 /\ fut' = fut /\ queue' = queue
                 /\ \E f \in Futures \ collected :
                        /\ fut[f].st = "done"
                        /\ collected' = collected \cup {f}
                 /\ Len(issues') = Len(issues) + 1
                 /\ SubSeq(issues', 1, Len(issues)) = issues
                 /\ UNCHANGED <<internal_links_map, external_links, soft_route_sources,
                                external_link_sources>> ]_vars

C11_Witness ==
    /\ pc = "pool"
    /\ \E f \in collected, g \in Futures :
          /\ fut[g].st \in {"head", "get"}
          /\ Len(VerificationIssues(fut[f].url)) = 1

\* ------------------------------------------------------------------------
\* C12: a run goes through traversal, link-equity analysis, external
\* verification and report in that order: the analysis runs only once every
\* discovered page is processed, verification only after the analysis, and the
\* report only once every collected external url has its result folded.
\* ------------------------------------------------------------------------
PhaseRank(p) ==
    CASE p \in {"main", "exit1"} -> 0
      [] p \in {"traverse", "links"} -> 1
      [] p = "external" -> 2
      [] p = "pool" -> 3
      [] p = "report" -> 4
      [] p = "done" -> 5

AllOrphanIssues == SelectSeq(issues, LAMBDA i : i.message[1] = "Orphan")

C12_BeforeAnalysis ==
    PhaseRank(pc) <= 1 => /\ inbound_counts = <<>>
                          /\ AllOrphanIssues = <<>>
                          /\ fut = <<>> /\ collected = {}

C12_AfterTraversal ==
    PhaseRank(pc) >= 2 => /\ Pages \subseteq processed_files
                          /\ pages_audited = Cardinality(Pages)
                          /\ cur = NoFile
                          /\ Len(inbound_counts) = Cardinality(processed_files)

C12_BeforeVerification == pc = "external" => fut = <<>> /\ collected = {}

C12_BeforeReport ==
    pc \in {"report", "done"} =>
        \A u \in external_links : \E f \in collected : fut[f].url = u /\ fut[f].st = "done"

C12_PhaseOrder ==
    /\ []C12_BeforeAnalysis
    /\ []C12_AfterTraversal
    /\ []C12_BeforeVerification
    /\ []C12_BeforeReport
    /\ [][ /\ PhaseRank(pc') >= PhaseRank(pc)
           /\ PhaseRank(pc') <= PhaseRank(pc) + 2
           /\ (PhaseRank(pc') = PhaseRank(pc) + 2) => (pc = "external" /\ external_links = {})
           /\ (processed_files' # processed_files) => PhaseRank(pc) = 1
           /\ (inbound_counts' # inbound_counts \/ Len(AllOrphanIssues') # Len(AllOrphanIssues))
                  => (pc = "traverse" /\ pc' = "external" /\ Pages \subseteq processed_files)
           /\ (fut' # fut \/ collected' # collected) => pc = "pool" ]_vars

C12_Witness ==
    /\ pc = "done"
    /\ Cardinality(processed_files) = 2
    /\ Len(inbound_counts) = 2
    /\ AllOrphanIssues # <<>>
    /\ external_links # {}
    /\ collected = Futures
    /\ \E f \in collected : VerificationIssues(fut[f].url) # <<>>

\* ------------------------------------------------------------------------
\* C13: a page that cannot be read costs one issue with penalty 0 and the walk
\* goes on; a url whose verification failed or raised costs one ERROR with
\* penalty 5 and the result loop goes on; the run ends with every discovered
\* page audited and every collected url verified and folded.
\* ------------------------------------------------------------------------
ReadFailIssues == SelectSeq(issues, LAMBDA i : i.message[1] = "ReadFail")

FailedFuture(F) == F.st = "done" /\ F.code = None

C13_RunComplete ==
    pc = "done" =>
        /\ Pages \subseteq processed_files
        /\ pages_audited = Cardinality(Pages)
        /\ \A u \in external_links : \E f \in collected : fut[f].url = u
        /\ \A f \in Futures : f \in collected /\ Count(fut[f].reqs, LAMBDA r : r = "HEAD") = 1
        /\ \A f \in Futures : FailedFuture(fut[f]) => OneError(fut[f].url)

C13_Isolation ==
    /\ []C13_RunComplete
    /\ [](pc = "exit1" => processed_files = {})
    /\ [][ (processed_files' # processed_files) =>
             /\ pc = "traverse" /\ pc' \in {"links", "traverse"}
             /\ (pc' = "traverse") <=> (Len(ReadFailIssues') = Len(ReadFailIssues) + 1)
             /\ (pc' = "traverse") => /\ Len(NewIssues) = 1
                                      /\ NewIssues[1].penalty = 0
                                      /\ score' = score ]_vars
    /\ [][ (pc = "pool" /\ \E f \in collected' \ collected : FailedFuture(fut[f])) =>
             /\ pc' = "pool"
             /\ Len(NewIssues) = 1
             /\ NewIssues[1].level = "ERROR"
             /\ NewIssues[1].penalty = 5 ]_vars
    /\ (pc = "external") ~> (pc = "done")

C13_Witness ==
    /\ pc = "done"
    /\ Len(ReadFailIssues) = 1
    /\ Cardinality(processed_files) = 2
    /\ Cardinality(external_links) = 2
    /\ \E f, g \in collected :
          /\ fut[f].raised /\ OneError(fut[f].url)
          /\ fut[g].code = 200 /\ VerificationIssues(fut[g].url) = <<>>

\* ------------------------------------------------------------------------
\* C14: an absolute href that starts with the site origin is treated as an
\* internal absolute link (warned about and resolved against the local files)
\* even when it contains a denylisted fragment.
\* ------------------------------------------------------------------------
C14_OriginFirst ==
    [][ (LinkStep /\ IsAbsoluteUrl(href') /\ IsOwnOrigin(href')) =>
          /\ Count(NewIssues, LAMBDA i : i.message[1] = "AbsoluteInternal"
                                         /\ i.message[3] = href') = 1
          /\ \/ found' /\ internal_links_map' # internal_links_map
             \/ Count(NewIssues, LAMBDA i : i.message[1] = "DeadLink") = 1 ]_vars

\* ------------------------------------------------------------------------
\* C15: a soft-route reference whose token is not in the redirect table yields
\* one WARN with penalty 5, also when the table is empty; a token in the table
\* yields none.
\* ------------------------------------------------------------------------
SoftRouteIssue(i, h) ==
    /\ i.message[1] = "SoftRoute"
    /\ i.message[3] = h
    /\ i.level = "WARN"
    /\ i.penalty = 5

C15_AbsentTokenWarns ==
    [][ (LinkStep /\ IsSoftRoute(href')) =>
          /\ Len(NewIssues) = IF href' \in redirects THEN 0 ELSE 1
          /\ \A k \in 1..Len(NewIssues) : SoftRouteIssue(NewIssues[k], href') ]_vars

\* ------------------------------------------------------------------------
\* C16: every internal reference, relative or absolute on the site origin,
\* gets one WARN with penalty 2 when it ends with ".html", and a relative one
\* gets one WARN with penalty 2 when it does not start with "/", whether or not
\* it resolves.
\* ------------------------------------------------------------------------
PolicyIssues(kind) ==
    SelectSeq(NewIssues, LAMBDA i : i.message[1] = kind /\ i.level = "WARN" /\ i.penalty = 2)

C16_PolicyChecks ==
    [][ (LinkStep /\ IsInternal(href')) =>
          /\ Len(PolicyIssues("HtmlSuffix")) = IF EndsWith(href', HTML) THEN 1 ELSE 0
          /\ ~IsAbsoluteUrl(href') =>
                 Len(PolicyIssues("Relative")) = IF StartsWith(href', <<"/">>) THEN 0 ELSE 1 ]_vars

\* ------------------------------------------------------------------------
\* C17: an external anchor whose rel lacks nofollow, noopener or noreferrer
\* gets, while its page is read and before any request is sent, exactly one
\* WARN with penalty 2 naming the missing attributes; an anchor with all three
\* gets none; the later verification of the url changes nothing of this.
\* ------------------------------------------------------------------------
ExternalAnchors == [href : {EXT_A, EXT_B}, rel : SUBSET {"nofollow", "noopener", "noreferrer"}]

ExternalRelIssues == SelectSeq(issues, LAMBDA i : i.message[1] = "ExternalRel")

IsExternal(h) == ~should_ignore_url(h) /\ IsAbsoluteUrl(h) /\ ~IsOwnOrigin(h)

\* check_links on any external anchor, from the state reached
C17_EachAnchor ==
    pc = "links" =>
        \A a \in ExternalAnchors :
            LET B == check_link(Auditor, a, cur)
                new == SubSeq(B.issues, Len(issues) + 1, Len(B.issues))
                missing == {"nofollow", "noopener", "noreferrer"} \ a.rel
            IN  /\ SubSeq(B.issues, 1, Len(issues)) = issues
                /\ Len(new) = IF missing = {} THEN 0 ELSE 1
                /\ missing # {} =>
                       /\ new[1].level = "WARN"
                       /\ new[1].penalty = 2
                       /\ new[1].message[1] = "ExternalRel"
                       /\ new[1].message[2] = cur
                       /\ new[1].message[3] = a.href
                       /\ {new[1].message[4][k] : k \in 1..Len(new[1].message[4])} = missing
                /\ B.score = Max(0, score - (IF missing = {} THEN 0 ELSE 2))
                /\ B.external_links = external_links \cup {a.href}

C17_RelPerAnchor ==
    /\ []C17_EachAnchor
    /\ [](PhaseRank(pc) <= 1 => fut = <<>>)
    /\ [][ (LinkStep /\ IsExternal(href')) =>
             /\ Len(NewIssues) <= 1
             /\ Len(ExternalRelIssues') = Len(ExternalRelIssues) + Len(NewIssues)
             /\ href' \in external_links' ]_vars
    /\ [][ PhaseRank(pc) >= 2 => ExternalRelIssues' = ExternalRelIssues ]_vars

C17_Witness ==
    /\ pc = "done"
    /\ Len(ExternalRelIssues) = 1
    /\ ExternalRelIssues[1].message[4] = <<"nofollow", "noopener", "noreferrer">>
    /\ Cardinality(external_link_sources[EXT_A]) = 2
    /\ \E f \in collected : fut[f].url = EXT_A /\ fut[f].code = 200

\* ------------------------------------------------------------------------
\* C18: the local audit of the site where index.html links to /a and /b, with
\* a.html on disk and nothing for /b, ends with LinkGraph {a.html: [index.html]},
\* one dead-link issue, for /b, no orphan issue for a.html and none for
\* index.html.
\* ------------------------------------------------------------------------
DeadLinkIssues == SelectSeq(issues, LAMBDA i : i.message[1] = "DeadLink")

C18_Scenario ==
    pc = "external" =>
        /\ internal_links_map = (A_HTML :> <<INDEX_HTML>>)
        /\ Len(DeadLinkIssues) = 1
        /\ DeadLinkIssues[1].message = <<"DeadLink", INDEX_HTML, <<"/", "b">>, <<>>>>
        /\ OrphanIssues(A_HTML) = <<>>
        /\ OrphanIssues(INDEX_HTML) = <<>>

\* nothing of the audit has happened: no page walked, no issue, no link, no probe
NothingAudited ==
    /\ score = SCORE_START
    /\ issues = <<>>
    /\ internal_links_map = EmptyMap
    /\ external_links = {}
    /\ soft_route_sources = EmptyMap
    /\ external_link_sources = EmptyMap
    /\ pages_audited = 0
    /\ processed_files = {}
    /\ nlinks = 0
    /\ inbound_counts = <<>>
    /\ fut = <<>>
    /\ queue = <<>>
    /\ collected = {}

\* C19: when index.html is missing from the site root, or load_from_index
\* fails to parse it, the run never leaves main except to exit with status 1;
\* at that exit no page has been traversed, no Issue logged, no external URL
\* probed, and nothing runs afterwards.
C19_AbortBeforeAudit ==
    /\ [](~IsFile(Join(root_dir, INDEX_HTML)) => pc \in {"main", "exit1"})
    /\ [](pc = "exit1" => NothingAudited)
    /\ [][pc = "exit1" => pc' = "exit1" /\ NothingAudited']_vars
    /\ [][pc = "main" /\ pc' # "exit1" => IsFile(Join(root_dir, INDEX_HTML))]_vars

C19_Witness == pc = "exit1" /\ ~IsFile(Join(root_dir, INDEX_HTML))

\* the multiset of the elements of a list
BagOf(l) == [x \in {l[i] : i \in DOMAIN l} |-> Cardinality({i \in DOMAIN l : l[i] = x})]

\* the same keys, and per key the same sources with the same multiplicities
SameLinkGraph(m1, m2) ==
    /\ DOMAIN m1 = DOMAIN m2
    /\ \A k \in DOMAIN m1 : BagOf(m1[k]) = BagOf(m2[k])

\* traverse has returned
TraverseDone == pc = "traverse" /\ Pages \subseteq processed_files

\* C20: when traverse has returned, in whatever order os.walk listed the
\* pages, the LinkGraph has the keys, and per key the multiset of sources, that
\* a second traverse from a fresh Auditor over the same tree and the same
\* anchors produces, and the Issues are the same multiset.
C20_SameResult ==
    TraverseDone =>
        /\ SameLinkGraph(internal_links_map, SecondRun.internal_links_map)
        /\ BagOf(issues) = BagOf(SecondRun.issues)

\* the two runs audited the pages in different orders: two sources of one
\* target are listed in another order, and so are the Issues
C20_Witness ==
    /\ TraverseDone
    /\ \E k \in DOMAIN internal_links_map :
           /\ Len(internal_links_map[k]) = 2
           /\ internal_links_map[k] # SecondRun.internal_links_map[k]
    /\ issues # SecondRun.issues

\* the place of page p in the order traverse met the pages
DiscoveryRank(p) == CHOOSE i \in DOMAIN discovered : discovered[i] = p

\* the ranking goes down by inbound count
RankedDescending ==
    \A i, j \in DOMAIN inbound_counts : i < j => inbound_counts[i][2] >= inbound_counts[j][2]

\* C21 as stated: the ranking is by inbound count descending, and of two pages
\* with equal inbound counts the one traverse discovered earlier is ranked
\* first.
C21_TiesByDiscovery ==
    /\ RankedDescending
    /\ \A i, j \in DOMAIN inbound_counts :
           (i < j /\ inbound_counts[i][2] = inbound_counts[j][2])
               => DiscoveryRank(inbound_counts[i][1]) < DiscoveryRank(inbound_counts[j][1])

\* C21, amended: once analyze_link_equity has run, the ranking lists every
\* audited page that is not an ignored file exactly once, with the length of
\* its LinkGraph source list, by inbound count descending; pages with equal
\* counts stand in the order the set processed_files was iterated, which need
\* not be the order of discovery.
C21_RankedByCount ==
    PhaseRank(pc) >= 2 =>
        /\ RankedDescending
        /\ {inbound_counts[i][1] : i \in DOMAIN inbound_counts}
               = {p \in processed_files : ~should_ignore_file(p)}
        /\ Len(inbound_counts) = Cardinality({p \in processed_files : ~should_ignore_file(p)})
        /\ \A i \in DOMAIN inbound_counts :
               inbound_counts[i][2] = inbound_count(internal_links_map, inbound_counts[i][1])

\* two pages with different counts are ranked, and so are two pages with equal
\* counts of which the later discovered one stands first
C21_Witness ==
    /\ PhaseRank(pc) >= 2
    /\ Len(inbound_counts) = 2
    /\ inbound_counts[1][2] = inbound_counts[2][2]
    /\ DiscoveryRank(inbound_counts[1][1]) > DiscoveryRank(inbound_counts[2][1])

\* an Issue logged by the result loop of check_external_links
IsVerificationIssue(i) == i.message[1] \in {"ExtDead", "ExtError", "ExtException"}

\* the ledger as check_external_links found it
PoolEntry ==
    LET before == SelectSeq(issues, LAMBDA i : ~IsVerificationIssue(i))
    IN  [Auditor EXCEPT !.issues = before,
                        !.score = Max(0, SCORE_START - SumPenalties(before))]

\* the same results folded in one fixed order of the urls
FixedOrderRun == as_completed_loop(PoolEntry, external_links)

\* C22: when check_external_links has returned, the score and the multiset of
\* Issues are those obtained by folding the same per-url results in one fixed
\* order: the order in which the probes completed and were consumed has no
\* effect on them.
C22_CompletionOrder ==
    pc \in {"report", "done"} =>
        /\ score = FixedOrderRun.score
        /\ BagOf(issues) = BagOf(FixedOrderRun.issues)

\* two urls failed and their Issues were logged in the other order
C22_Witness ==
    /\ pc = "done"
    /\ Len(SelectSeq(issues, IsVerificationIssue)) = 2
    /\ issues # FixedOrderRun.issues
    /\ score < SCORE_START

\* how many times source s stands in the LinkGraph source list of target t
Mult(m, t, s) ==
    IF t \in DOMAIN m THEN Cardinality({i \in DOMAIN m[t] : m[t][i] = s}) ELSE 0

\* the references to t, summed over the sources S
RECURSIVE Inbound(_, _, _)
Inbound(m, t, S) ==
    IF S = {} THEN 0
    ELSE LET s == CHOOSE x \in S : TRUE IN Mult(m, t, s) + Inbound(m, t, S \ {s})

\* C23: every internal reference that resolves adds one entry for its source
\* page to the source list of the target, also when that page is already in
\* the list and when the page refers to itself, and changes no other entry;
\* the inbound count of a ranked page is the number of references to it,
\* counted with multiplicity over all source pages.
C23_Multiplicity ==
    /\ [][ (LinkStep /\ IsInternal(href') /\ found') =>
             /\ Mult(internal_links_map', resolved_rel_path', cur)
                    = Mult(internal_links_map, resolved_rel_path', cur) + 1
             /\ \A t \in Pages, s \in Pages :
                    (t # resolved_rel_path' \/ s # cur)
                        => Mult(internal_links_map', t, s) = Mult(internal_links_map, t, s) ]_vars
    /\ [](PhaseRank(pc) >= 2 =>
             \A i \in DOMAIN inbound_counts :
                 inbound_counts[i][2]
                     = Inbound(internal_links_map, inbound_counts[i][1], processed_files))

\* index.html refers to itself twice: two entries, inbound count 2
C23_Witness ==
    /\ PhaseRank(pc) >= 2
    /\ INDEX_HTML \in DOMAIN internal_links_map
    /\ internal_links_map[INDEX_HTML] = <<INDEX_HTML, INDEX_HTML>>
    /\ \E i \in DOMAIN inbound_counts : inbound_counts[i] = <<INDEX_HTML, 2>>

\* a worker thread took a url and sent its HEAD
ProbeStarts == \E f \in Futures : fut[f].st = "queued" /\ fut'[f].st = "head"

\* C24: during external verification at most 10 probes are in flight, however
\* many urls were collected, and a probe starts only while fewer than 10 are
\* in flight: with 10 in flight the next url waits until a worker has finished.
C24_PoolWidth ==
    /\ [](Cardinality(Running) <= 10)
    /\ [][ProbeStarts => Cardinality(Running) < 10 /\ Cardinality(Running') <= 10]_vars
    /\ [][(Cardinality(Running) = 10 /\ queue # <<>>)
              => (queue' # <<>> /\ Head(queue') = Head(queue))]_vars

\* eleven urls: ten probes in flight, the eleventh started after one ended
C24_Witness ==
    /\ Cardinality(external_links) > 10
    /\ Cardinality(Running) = 10
    /\ queue = <<>>
    /\ \E f \in Futures : fut[f].st = "done"

\* the reference is one the classifier drops: empty, a javascript:, mailto:,
\* tel: or fragment reference, or an absolute url with a denylisted fragment
IgnoredRef(h) ==
    \/ h = <<>>
    \/ h[1] \in {"javascript:", "mailto:", "tel:", "#"}
    \/ /\ h[1] \in {"http://", "https://"}
       /\ \E i \in 1..Len(h) : h[i] \in {"cdn-cgi", "google"}

\* the reference is a soft route: it starts with /go/
SoftRouteRef(h) == Len(h) >= 3 /\ SubSeq(h, 1, 3) = <<"/", "go", "/">>

\* C25: reading an ignored reference changes neither the LinkGraph, nor the
\* external urls and their sources, nor the soft-route sources, nor the ledger,
\* nor the score; reading a soft-route reference adds no LinkGraph entry, no
\* external url and no dead-link Issue, whatever stands on disk at its path.
C25_Frame ==
    /\ [][ (LinkStep /\ IgnoredRef(href')) =>
             UNCHANGED <<internal_links_map, external_links, external_link_sources,
                         soft_route_sources, issues, score>> ]_vars
    /\ [][ (LinkStep /\ SoftRouteRef(href')) =>
             /\ UNCHANGED <<internal_links_map, external_links, external_link_sources>>
             /\ \A k \in 1..Len(NewIssues) : NewIssues[k].message[1] # "DeadLink" ]_vars
    /\ [](\A k \in 1..Len(issues) :
              issues[k].message[1] = "DeadLink" => ~SoftRouteRef(issues[k].message[3]))
    /\ [](\A u \in external_links : ~SoftRouteRef(u) /\ ~IgnoredRef(u))

\* /go/x was read while go/x.html is on disk, then a mailto: reference: the
\* soft route is recorded as such and nothing else changed
C25_Witness ==
    /\ pc = "links"
    /\ nlinks = 2
    /\ href = <<"mailto:", "x">>
    /\ F_go_x_html \in files
    /\ DOMAIN soft_route_sources = {GO_X}
    /\ internal_links_map = EmptyMap
    /\ external_links = {}

====
